---- MODULE Spec2Model ----
(***************************************************************************)
(* Verification model of the recipe management services:                   *)
(*   - recipe-service: RecipeRepository / RecipeIngredientRepository over  *)
(*     the recipes, recipe_ingredients and recipe_dependencies tables;     *)
(*   - calculator-service: CalculationService hierarchical expansion.      *)
(***************************************************************************)
EXTENDS Integers, Sequences, FiniteSets, TLC

Null == "null"

(***************************************************************************)
(* Bounds of the model.                                                    *)
(***************************************************************************)
\* highest recipe version the model lets an update reach
MaxVersion == 2
\* number of create/update calls followed statement by statement
MaxTxns == 2
\* config MAX_INGREDIENTS_PER_RECIPE (100 by default), kept small here
MAX_INGREDIENTS_PER_RECIPE == 2

Products == {1, 2, 3}
\* the products recipes are created for: with two recipe rows at most two
\* products have a recipe at a time; the third is an ingredient only
RecipeProducts == {1, 2}
\* primary keys of the recipes table
RecipeIds == {1, 2}

\* the status values callers send in the model: one active, one not
StatusInputs == {"draft", "active"}

(***************************************************************************)
(* State of the recipe-service database (committed rows).                  *)
(*   recipes[r]       NoRecipe or the Recipe row with primary key r        *)
(*   ingredients[r]   RecipeIngredient rows of recipe r                    *)
(*   dependencies[r]  child_product_id of the RecipeDependency rows of r   *)
(* lastOp describes the last repository call and its outcome.              *)
(* session, txn, seen: a repository call taken one statement at a time,    *)
(* and what a concurrent reader saw meanwhile.                             *)
(* State of the calculator-service:                                        *)
(*   catalog[p]  what RecipeClient.get_recipe(p) answers                   *)
(*   calc        the calculate_recipe call in progress: its arguments, the *)
(*               frames of _expand_hierarchical_recipe, and its outcome    *)
(*   fn          a call of one of the helper methods of CalculationService *)
(*               on its own: the arguments and what it returned            *)
(*   cache       the entries of the result cache, by cache key             *)
(*   served      the last calculate_recipe or calculate_batch call made    *)
(*               against the cache, and what it returned                   *)
(*   client      a call of RecipeServiceClient: the attempts made, the     *)
(*               waits slept and how it ended                              *)
(*   procs       calculate_recipe requests running at the same time on     *)
(*               the cache                                                 *)
(*   breaker     the gateway's CircuitBreaker, the clock and the last      *)
(*               call made through it                                      *)
(***************************************************************************)
VARIABLES recipes, ingredients, dependencies, lastOp, session, txn, seen,
          catalog, calc, fn, cache, served, client, procs, breaker

dbvars == <<recipes, ingredients, dependencies>>
storevars == <<recipes, ingredients, dependencies, lastOp, session, txn, seen>>
calcvars == <<catalog, calc>>
netvars == <<client, procs, breaker>>
auxvars == <<fn, cache, served, client, procs, breaker>>
vars == <<recipes, ingredients, dependencies, lastOp, session, txn, seen,
          catalog, calc, fn, cache, served, client, procs, breaker>>

\* The three tables as one value.
Store == [recipes |-> recipes, ingredients |-> ingredients,
          dependencies |-> dependencies]

\* an unused primary key of the recipes table
NoRecipe == [product_id |-> 0, status |-> "none", version |-> 0]

\* whether recipe r is a row of the recipes table
Exists(S, r) == S.recipes[r].product_id # 0

\* Recipe row; version has column default 1.
Recipe(product_id, status) ==
    [product_id |-> product_id, status |-> status, version |-> 1]

\* A RecipeIngredient row of recipe r is kept as its ingredient_product_id
\* (UNIQUE (recipe_id, ingredient_product_id)).
IngredientProducts(rows) == rows

\* ingredient lists a caller can send: rows for distinct products
IngredientInputs ==
    {rows \in SUBSET Products :
        Cardinality(rows) <= MAX_INGREDIENTS_PER_RECIPE + 1}

(***************************************************************************)
(* Graph of products.                                                      *)
(***************************************************************************)
\* recipes of product p that are active, other than recipe self
ActiveRecipesOf(S, p, self) ==
    {r \in RecipeIds : /\ r # self
                       /\ Exists(S, r)
                       /\ S.recipes[r].product_id = p
                       /\ S.recipes[r].status = "active"}

\* products reached in one step from the products in ps, over rows[r]
Step(S, rows, ps, self) ==
    UNION {rows[r] : r \in UNION {ActiveRecipesOf(S, p, self) : p \in ps}}

RECURSIVE Closure(_, _, _, _, _)
Closure(S, rows, ps, self, n) ==
    IF n = 0 THEN ps
    ELSE Closure(S, rows, ps \cup Step(S, rows, ps, self), self, n - 1)

\* products reached from p in one or more steps through active recipes
Reachable(S, rows, p, self) ==
    Closure(S, rows, Step(S, rows, {p}, self), self, Cardinality(Products))

\* ingredient edges of the stored recipes: recipe -> ingredient product ids
IngredientEdges(S) ==
    [r \in RecipeIds |-> IngredientProducts(S.ingredients[r])]

\* The product graph has edge A -> B iff an active recipe of A lists B.
Acyclic(S) ==
    \A p \in Products :
        p \notin Reachable(S, IngredientEdges(S), p, 0)

(***************************************************************************)
(* Stages of RecipeRepository.create / update.  Each stage maps the rows   *)
(* the session holds to an outcome: an error, or the rows after the stage. *)
(***************************************************************************)
Ok(S) == [error |-> "ok", store |-> S]
Fail(e) == [error |-> e]

\* UNIQUE (product_id, version) on recipes, seen from row self
ProductVersionTaken(S, product_id, version, self) ==
    \E q \in RecipeIds : /\ q # self
                         /\ Exists(S, q)
                         /\ S.recipes[q].product_id = product_id
                         /\ S.recipes[q].version = version

\* create, lines 154-174: product check, Recipe(...), session.add, flush
AddRecipe(S, r, data) ==
    IF data.product_resp = "unavailable" THEN Fail("ProductServiceError")
    ELSE IF data.product_resp = "missing" THEN Fail("RecipeValidationError")
    ELSE IF ProductVersionTaken(S, data.product_id, 1, r)
         THEN Fail("RecipeValidationError")
    ELSE Ok([S EXCEPT !.recipes[r] = Recipe(data.product_id, data.status)])

\* _create_ingredients: size limit, products exist, rows appended
CreateIngredients(S, r, rows, ingredients_resp) ==
    IF Cardinality(rows) > MAX_INGREDIENTS_PER_RECIPE
    THEN Fail("TooManyIngredientsError")
    ELSE IF rows # {} /\ ingredients_resp = "invalid"
         THEN Fail("RecipeValidationError")
    ELSE Ok([S EXCEPT !.ingredients[r] = @ \cup rows])

\* update, lines 257-263: old rows deleted, new rows created
ReplaceIngredients(S, r, rows, ingredients_resp) ==
    CreateIngredients([S EXCEPT !.ingredients[r] = {}], r, rows,
                      ingredients_resp)

\* _validate_recipe
ValidateRecipe(S, r) ==
    IF S.ingredients[r] = {}
    THEN Fail("RecipeValidationError")
    ELSE Ok(S)

\* Storage-level check run for every inserted recipe_ingredients row: the
\* ingredient is the recipe's own product, or the recipe's product is
\* reachable from it over the dependency rows of other active recipes.
CircularDependencyDetected(S, r, inserted) ==
    \E i \in IngredientProducts(inserted) :
        \/ i = S.recipes[r].product_id
        \/ S.recipes[r].product_id \in Reachable(S, S.dependencies, i, r)

\* variant: the error of the storage layer is swallowed
FlushIngredientsUnchecked(S, r, inserted) == Ok(S)

\* variant: only rows of active recipes are checked
FlushIngredientsActiveOnly(S, r, inserted) ==
    IF S.recipes[r].status = "active" /\ CircularDependencyDetected(S, r, inserted)
    THEN Fail("DatabaseError")
    ELSE Ok(S)

\* The pending rows reach the database when the session autoflushes at the
\* query of _update_dependencies; the error the storage layer raises for a
\* rejected row is passed on as it is.
FlushIngredients(S, r, inserted) ==
    IF CircularDependencyDetected(S, r, inserted)
    THEN Fail("DatabaseError")
    ELSE Ok(S)

\* _update_dependencies: rows of the recipe deleted, one added per ingredient
UpdateDependencies(S, r) ==
    Ok([S EXCEPT !.dependencies[r] = IngredientProducts(S.ingredients[r])])

\* _should_increment_version with the yield fields left out of the list
ShouldIncrementVersionIngredientsOnly(data) ==
    data.has_ingredients

\* _should_increment_version
ShouldIncrementVersion(data) ==
    data.has_ingredients \/ data.has_yield

\* update, lines 275-279, and the UNIQUE (product_id, version) check at commit
IncrementVersion(S, r, data) ==
    IF ~ShouldIncrementVersion(data) THEN Ok(S)
    ELSE IF ProductVersionTaken(S, S.recipes[r].product_id,
                                S.recipes[r].version + 1, r)
         THEN Fail("IntegrityError")
    ELSE Ok([S EXCEPT !.recipes[r].version = @ + 1])

\* update, lines 238-254: basic fields
UpdateFields(S, r, data) ==
    IF data.status = Null THEN Ok(S)
    ELSE Ok([S EXCEPT !.recipes[r].status = data.status])

\* rows inserted into recipe_ingredients by a call with this data
Inserted(data) == IF data.has_ingredients THEN data.ingredients ELSE {}

\* RecipeRepository.create as a whole: outcome on the rows S
CreateOutcome(S, r, data) ==
    LET a == AddRecipe(S, r, data)
        b == IF ~data.has_ingredients THEN a
             ELSE CreateIngredients(a.store, r, data.ingredients,
                                    data.ingredients_resp)
        c == ValidateRecipe(b.store, r)
        d == FlushIngredients(c.store, r, Inserted(data))
        e == UpdateDependencies(d.store, r)
    IN  IF a.error # "ok" THEN a
        ELSE IF b.error # "ok" THEN b
        ELSE IF c.error # "ok" THEN c
        ELSE IF d.error # "ok" THEN d
        ELSE e

\* RecipeRepository.update as a whole: outcome on the rows S
UpdateOutcome(S, r, data) ==
    LET a == UpdateFields(S, r, data)
        b == IF ~data.has_ingredients THEN a
             ELSE ReplaceIngredients(a.store, r, data.ingredients,
                                     data.ingredients_resp)
        c == ValidateRecipe(b.store, r)
        d == FlushIngredients(c.store, r, Inserted(data))
        e == UpdateDependencies(d.store, r)
        f == IncrementVersion(e.store, r, data)
    IN  IF ~Exists(S, r) THEN Fail("RecipeNotFoundError")
        ELSE IF b.error # "ok" THEN b
        ELSE IF c.error # "ok" THEN c
        ELSE IF d.error # "ok" THEN d
        ELSE IF e.error # "ok" THEN e
        ELSE f

\* session.commit() / session.rollback(): the committed rows afterwards
Commit(S, pending) == pending
Rollback(S, pending) == S

\* the committed rows after a call with outcome o
Committed(S, o) ==
    IF o.error = "ok" THEN Commit(S, o.store) ELSE Rollback(S, S)

(***************************************************************************)
(* Inputs.                                                                 *)
(***************************************************************************)
\* A failing product lookup is tried with one request per product, an
\* unknown ingredient product with single-ingredient lists.
CreateData ==
    {d \in [product_id : RecipeProducts, status : StatusInputs,
            has_ingredients : BOOLEAN, ingredients : IngredientInputs,
            product_resp : {"exists", "missing", "unavailable"},
            ingredients_resp : {"valid", "invalid"}] :
        /\ ~d.has_ingredients => d.ingredients = {} /\ d.ingredients_resp = "valid"
        /\ d.product_resp # "exists" => ~d.has_ingredients /\ d.status = "draft"
        /\ d.ingredients_resp = "invalid" => Cardinality(d.ingredients) = 1}

\* has_yield: the data carries yield_quantity or yield_unit
UpdateData ==
    {d \in [status : StatusInputs \cup {Null},
            has_ingredients : BOOLEAN, ingredients : IngredientInputs,
            has_yield : BOOLEAN,
            ingredients_resp : {"valid", "invalid"}] :
        /\ ~d.has_ingredients => d.ingredients = {} /\ d.ingredients_resp = "valid"
        /\ d.has_yield => ~d.has_ingredients
        /\ d.ingredients_resp = "invalid" =>
              Cardinality(d.ingredients) = 1 /\ d.status = Null}

\* the smallest unused primary key
FreeRecipeId == CHOOSE r \in RecipeIds :
    /\ ~Exists(Store, r)
    /\ \A q \in RecipeIds : ~Exists(Store, q) => r <= q

\* whether a new ingredient of a call on recipe r of product p is p itself
SelfReference(p, data) == p \in IngredientProducts(Inserted(data))

\* whether a new ingredient of a call on recipe r of product p is p or
\* reaches p over the ingredient edges of the active recipes
ClosesCycle(S, r, p, data) ==
    \E i \in IngredientProducts(Inserted(data)) :
        i = p \/ p \in Reachable(S, IngredientEdges(S), i, r)

\* what is recorded of a repository call
LastOp(op, error, draft, closes_cycle, self_ref) ==
    [op |-> op, error |-> error, draft |-> draft,
     closes_cycle |-> closes_cycle, self_ref |-> self_ref]

\* whether the call gets as far as writing its ingredient rows
Wellformed(S, r, data) ==
    /\ data.has_ingredients
    /\ data.ingredients_resp = "valid"
    /\ Cardinality(data.ingredients) <= MAX_INGREDIENTS_PER_RECIPE
    /\ data.ingredients # {}

\* no rows at all
EmptyStore ==
    [recipes |-> [r \in RecipeIds |-> NoRecipe],
     ingredients |-> [r \in RecipeIds |-> {}],
     dependencies |-> [r \in RecipeIds |-> {}]]

\* no call in progress; count calls have been followed so far
Idle(count) == [pc |-> "idle", count |-> count]

\* nothing read yet
NotSeen == [call |-> "none", recipe |-> 0]

(***************************************************************************)
(* calculator-service: quantities, rounding and scaling.                   *)
(* A quantity is a whole number of thousandths (the recipe-service columns *)
(* are Numeric(10, 3)); a scale factor is the fraction num / den.          *)
(***************************************************************************)
\* thousandths in one unit
Ticks == 1000

\* JSON null / Python None in a number field
None == -1

\* CalculationService.__init__
precision_places == 3
max_scale_factor == 1000
min_scale_factor == [num |-> 1, den |-> 1000]

\* config MAX_INGREDIENTS_PER_CALCULATION (1000 by default), kept small here
max_ingredients == 1

\* CalculationRequestSchema.max_depth: validate.Range(min=1, max=10)
HardCeiling == 10

\* largest max_depth a caller sends in the model
MaxDepth == 2

RECURSIVE Pow10(_)
Pow10(k) == IF k = 0 THEN 1 ELSE 10 * Pow10(k - 1)

\* half a quantum added and the fraction dropped, the division by the
\* quantum forgotten
RoundHalfUpUnscaled(n, d, quantum) ==
    (2 * n + d * quantum) \div (2 * d)

\* Decimal.quantize(..., rounding=ROUND_HALF_UP) of the quantity n / d
\* (thousandths, not negative) to a multiple of quantum
RoundHalfUp(n, d, quantum) ==
    ((2 * n + d * quantum) \div (2 * d * quantum)) * quantum

\* _round_quantity with every 'piece' quantity rounded to a whole number
RoundQuantityWholePieces(n, d, unit, precision) ==
    LET places == IF precision = None THEN precision_places ELSE precision
    IN  IF unit = "piece"
        THEN RoundHalfUp(n, d, Ticks)
        ELSE IF places = 0
             THEN RoundHalfUp(n, d, Ticks)
             ELSE RoundHalfUp(n, d, Ticks \div Pow10(places))

\* _round_quantity without the branch for precision 0: the pattern
\* '0.' + '0' * (precision - 1) + '1' is then '0.1'
RoundQuantityNoZeroBranch(n, d, unit, precision) ==
    LET places == IF precision = None THEN precision_places ELSE precision
    IN  IF unit = "piece"
        THEN IF n >= d * Ticks
             THEN RoundHalfUp(n, d, Ticks)
             ELSE RoundHalfUp(n, d, Ticks \div 10)
        ELSE IF places = 0
             THEN RoundHalfUp(n, d, Ticks \div 10)
             ELSE RoundHalfUp(n, d, Ticks \div Pow10(places))

\* CalculationService._round_quantity, of the quantity n / d
RoundQuantity(n, d, unit, precision) ==
    LET places == IF precision = None THEN precision_places ELSE precision
    IN  IF unit = "piece"
        THEN IF n >= d * Ticks
             THEN RoundHalfUp(n, d, Ticks)
             ELSE RoundHalfUp(n, d, Ticks \div 10)
        ELSE IF places = 0
             THEN RoundHalfUp(n, d, Ticks)
             ELSE RoundHalfUp(n, d, Ticks \div Pow10(places))

\* CalculationService._scale_ingredient
ScaleIngredient(ingredient, scale_factor, precision) ==
    [product_id |-> ingredient.product_id,
     original_quantity |-> ingredient.quantity,
     calculated_quantity |->
         RoundQuantity(ingredient.quantity * scale_factor.num,
                       scale_factor.den, ingredient.unit, precision),
     unit |-> ingredient.unit]

\* the keys of the dictionary _scale_ingredient returns
ScaledKeys ==
    {"product_id", "original_quantity", "calculated_quantity", "unit"}

\* CalculationService._scale_recipe_ingredients
ScaleRecipeIngredients(recipe_data, scale_factor, precision) ==
    LET rows == recipe_data.ingredients
    IN  IF Len(rows) > max_ingredients
        THEN [error |-> "MaxIngredientsExceededError", ingredients |-> <<>>]
        ELSE [error |-> "ok",
              ingredients |->
                  [k \in 1..Len(rows) |->
                      ScaleIngredient(rows[k], scale_factor, precision)]]

\* _validate_scale_factor with the upper limit itself rejected
ValidateScaleFactorStrict(sf) ==
    IF sf.num <= 0 THEN "InvalidScaleFactorError"
    ELSE IF sf.num >= max_scale_factor * sf.den THEN "InvalidScaleFactorError"
    ELSE IF sf.num * min_scale_factor.den < min_scale_factor.num * sf.den
    THEN "InvalidScaleFactorError"
    ELSE "ok"

\* CalculationService._validate_scale_factor, of the factor num / den
ValidateScaleFactor(sf) ==
    IF sf.num <= 0 THEN "InvalidScaleFactorError"
    ELSE IF sf.num > max_scale_factor * sf.den THEN "InvalidScaleFactorError"
    ELSE IF sf.num * min_scale_factor.den < min_scale_factor.num * sf.den
    THEN "InvalidScaleFactorError"
    ELSE "ok"

\* _calculate_scale_factor dividing the wrong way round
CalculateScaleFactorInverted(original_quantity, original_unit, target_quantity, target_unit) ==
    LET sf == [num |-> original_quantity, den |-> target_quantity]
        error == IF original_quantity = None THEN "TypeError"
                 ELSE IF original_quantity <= 0 THEN "InvalidInputError"
                 ELSE IF target_quantity <= 0 THEN "InvalidInputError"
                 ELSE IF original_unit # target_unit THEN "InvalidInputError"
                 ELSE ValidateScaleFactor(sf)
    IN  [error |-> error, scale_factor |-> sf]

\* CalculationService._calculate_scale_factor; comparing None with 0 is a
\* TypeError
CalculateScaleFactor(original_quantity, original_unit, target_quantity, target_unit) ==
    LET sf == [num |-> target_quantity, den |-> original_quantity]
        error == IF original_quantity = None THEN "TypeError"
                 ELSE IF original_quantity <= 0 THEN "InvalidInputError"
                 ELSE IF target_quantity <= 0 THEN "InvalidInputError"
                 ELSE IF original_unit # target_unit THEN "InvalidInputError"
                 ELSE ValidateScaleFactor(sf)
    IN  [error |-> error, scale_factor |-> sf]

\* a scale factor in the result is a number of millionths
Millionths == 1000000

\* the first k decimal digits of rem / den (rem < den), the last one rounded
RECURSIVE Decimals(_, _, _)
Decimals(rem, den, k) ==
    IF k = 0 THEN (IF 2 * rem >= den THEN 1 ELSE 0)
    ELSE ((10 * rem) \div den) * Pow10(k - 1)
             + Decimals((10 * rem) % den, den, k - 1)

\* round(scale_factor, 6), of the factor num / den, in millionths
Round6(sf) ==
    (sf.num \div sf.den) * Millionths + Decimals(sf.num % sf.den, sf.den, 6)

\* sub_scale_factor = ingredient_quantity / sub_recipe_yield, with the
\* yield left out
SubScaleFactorYieldIgnored(ingredient_quantity, sub_recipe_yield) ==
    [num |-> ingredient_quantity, den |-> Ticks]

\* sub_scale_factor = ingredient_quantity / sub_recipe_yield
SubScaleFactor(ingredient_quantity, sub_recipe_yield) ==
    [num |-> ingredient_quantity, den |-> sub_recipe_yield]

(***************************************************************************)
(* What the recipe-service answers to the calculator-service.              *)
(***************************************************************************)
\* RecipeClient.get_recipe returns None on a 404
NotFound == [status |-> "not_found"]

\* one entry of the 'ingredients' list of a recipe
Row(product_id, quantity, unit) ==
    [product_id |-> product_id, quantity |-> quantity, unit |-> unit]

\* the recipe dictionary RecipeClient.get_recipe returns
RecipeData(product_id, type, yield_quantity, rows) ==
    [status |-> "ok", product_id |-> product_id, type |-> type,
     yield_quantity |-> yield_quantity, yield_unit |-> "gram",
     ingredients |-> rows]

NextProduct(p) == IF p + 1 \in Products THEN p + 1 ELSE 1

\* ingredient lists of the recipe of product p: another product, the
\* product itself, two products
IngredientLists(p) ==
    {<<Row(NextProduct(p), 1500, "gram")>>,
     <<Row(p, 500, "piece")>>,
     <<Row(NextProduct(p), 250, "gram"),
       Row(CHOOSE q \in Products : NextProduct(q) = p, 2000, "piece")>>}

\* the answers for product p: no recipe, get_recipe raising
\* RecipeServiceError, the recipe of a standard product, of a semi-product
\* without yield_quantity, of a semi-product
Responses(p) ==
    {NotFound, [status |-> "error"],
     RecipeData(p, "standard", Ticks, <<Row(NextProduct(p), 1500, "gram")>>),
     RecipeData(p, "standard", 7 * Ticks,
                <<Row(NextProduct(p), 1500, "gram")>>),
     RecipeData(p, "semi-product", None,
                <<Row(NextProduct(p), 1500, "gram")>>)}
    \cup {RecipeData(p, "semi-product", y, rows) :
              y \in {Ticks, 2 * Ticks}, rows \in IngredientLists(p)}

Catalogs ==
    {c \in [Products -> UNION {Responses(p) : p \in Products}] :
        \A p \in Products : c[p] \in Responses(p)}

\* the body of POST /calculate
Request(product_id, target_quantity, target_unit, include_hierarchy, max_depth, precision) ==
    [product_id |-> product_id, target_quantity |-> target_quantity,
     target_unit |-> target_unit, include_hierarchy |-> include_hierarchy,
     max_depth |-> max_depth, precision |-> precision]

Requests ==
    {Request(p, 3 * Ticks, u, h, m, pr) :
        p \in Products, u \in {"gram", "piece"}, h \in BOOLEAN,
        m \in (0..MaxDepth) \cup {HardCeiling + 1}, pr \in {None, 0}}

\* CalculationRequestSchema: the Range validators
ValidRequest(request) ==
    /\ request.target_quantity >= 1
    /\ request.max_depth >= 1 /\ request.max_depth <= HardCeiling
    /\ request.precision # None =>
          request.precision >= 0 /\ request.precision <= 6

\* no helper method has been called
NoCall == [name |-> "none"]

\* RecipeServiceClient before a call: no attempt made, nothing slept
ClientIdle ==
    [pc |-> "idle", retries |-> 0, product_id |-> <<>>, attempt |-> 0,
     attempts |-> 0, waits |-> <<>>, answers |-> <<>>, message |-> <<>>,
     returns |-> "nothing"]

\* the requests that run at the same time
Procs == {1, 2}

\* a request that has not begun
ProcIdle ==
    [pc |-> "idle", request |-> Request(0, 0, "gram", FALSE, 0, None),
     result |-> [cached |-> FALSE], missed |-> FALSE, error |-> "ok"]

\* no calculate_recipe call has been made
CalcIdle ==
    [pc |-> "idle", request |-> Request(0, 0, "gram", FALSE, 0, None),
     stack |-> <<>>, ingredients |-> <<>>, scale_factor |-> None,
     error |-> "ok"]

(***************************************************************************)
(* Repository calls, each taken as one step.                               *)
(***************************************************************************)
\* no recipe stored, no call in progress
InitStore ==
    /\ recipes = [r \in RecipeIds |-> NoRecipe]
    /\ ingredients = [r \in RecipeIds |-> {}]
    /\ dependencies = [r \in RecipeIds |-> {}]
    /\ lastOp = LastOp("none", "ok", FALSE, FALSE, FALSE)
    /\ session = EmptyStore
    /\ txn = Idle(0)
    /\ seen = NotSeen

\* no helper call made, nothing cached, no call served, no request sent or
\* running, the breaker as CircuitBreaker.__init__ leaves it with the clock
\* at 0 and no call made through it
InitAux ==
    /\ fn = NoCall
    /\ cache = <<>>
    /\ served = [call |-> "none"]
    /\ client = ClientIdle
    /\ procs = [p \in Procs |-> ProcIdle]
    /\ breaker = [state |-> "CLOSED", failure_count |-> 0,
                  last_failure_time |-> None, now |-> 0, consecutive |-> 0,
                  call |-> "none", invoked |-> FALSE, before |-> "CLOSED",
                  elapsed |-> None]

Init ==
    /\ InitStore
    /\ catalog = [p \in Products |-> NotFound]
    /\ calc = CalcIdle
    /\ InitAux

SetStore(S) ==
    /\ recipes' = S.recipes
    /\ ingredients' = S.ingredients
    /\ dependencies' = S.dependencies

\* RecipeRepository.create
Create ==
    /\ txn.pc = "idle"
    /\ \E r \in RecipeIds : ~Exists(Store, r)
    /\ \E data \in CreateData :
        LET r == FreeRecipeId
            o == CreateOutcome(Store, r, data)
            valid == /\ data.product_resp = "exists"
                     /\ ~ProductVersionTaken(Store, data.product_id, 1, r)
                     /\ Wellformed(Store, r, data)
        IN  /\ SetStore(Committed(Store, o))
            /\ lastOp' = LastOp("create", o.error, data.status # "active",
                   valid /\ ClosesCycle(Store, r, data.product_id, data),
                   valid /\ SelfReference(data.product_id, data))
    /\ UNCHANGED <<session, txn, seen, calcvars, auxvars>>

\* RecipeRepository.update
Update ==
    /\ txn.pc = "idle"
    /\ \E r \in RecipeIds, data \in UpdateData :
        /\ Exists(Store, r) =>
              (ShouldIncrementVersion(data) => recipes[r].version < MaxVersion)
        /\ LET o == UpdateOutcome(Store, r, data)
               valid == Exists(Store, r) /\ Wellformed(Store, r, data)
           IN  /\ SetStore(Committed(Store, o))
               /\ lastOp' = LastOp("update", o.error, FALSE,
                      valid /\ ClosesCycle(Store, r, recipes[r].product_id, data),
                      valid /\ SelfReference(recipes[r].product_id, data))
    /\ UNCHANGED <<session, txn, seen, calcvars, auxvars>>

\* RecipeRepository.delete: the row goes, its ingredient and dependency rows
\* go with it (ON DELETE CASCADE)
Delete ==
    /\ txn.pc = "idle"
    /\ \E r \in RecipeIds :
        /\ Exists(Store, r)
        /\ recipes' = [recipes EXCEPT ![r] = NoRecipe]
        /\ ingredients' = [ingredients EXCEPT ![r] = {}]
        /\ dependencies' = [dependencies EXCEPT ![r] = {}]
        /\ lastOp' = LastOp("delete", "ok", FALSE, FALSE, FALSE)
    /\ UNCHANGED <<session, txn, seen, calcvars, auxvars>>

\* RecipeIngredientRepository.update: fields of one row; the ingredient's
\* product is not among them
IngredientUpdate ==
    /\ txn.pc = "idle"
    /\ \E r \in RecipeIds : \E i \in ingredients[r] :
        /\ ingredients' = [ingredients EXCEPT ![r] = (@ \ {i}) \cup {i}]
        /\ lastOp' = LastOp("ingredient_update", "ok", FALSE, FALSE, FALSE)
    /\ UNCHANGED <<recipes, dependencies, session, txn, seen, calcvars, auxvars>>

\* RecipeIngredientRepository.delete: the row is deleted and committed
IngredientDelete ==
    /\ txn.pc = "idle"
    /\ \E r \in RecipeIds : \E i \in ingredients[r] :
        /\ ingredients' = [ingredients EXCEPT ![r] = @ \ {i}]
        /\ lastOp' = LastOp("ingredient_delete", "ok", FALSE, FALSE, FALSE)
    /\ UNCHANGED <<recipes, dependencies, session, txn, seen, calcvars, auxvars>>

Next == Create \/ Update \/ Delete \/ IngredientUpdate \/ IngredientDelete

Spec == Init /\ [][Next]_vars

(***************************************************************************)
(* A create or update call taken statement by statement, with readers in   *)
(* other sessions.  session holds the rows as the writing session sees     *)
(* them; recipes, ingredients, dependencies stay the committed rows.       *)
(***************************************************************************)
\* variant: the flush commits
SessionFlushCommits(S, pending) == pending

\* session.flush(): the rows go to the database inside the open
\* transaction; the committed rows are what they were
SessionFlush(S, pending) == S

\* what a query of another session returns: committed rows only
ReaderView(S, pending) == S

Running(pc, t) == [t EXCEPT !.pc = pc]

\* the call moves to pc next if stage outcome o is ok, else it has failed
Advance(o, next) ==
    IF o.error = "ok"
    THEN /\ session' = o.store
         /\ txn' = Running(next, txn)
    ELSE /\ session' = session
         /\ txn' = [Running("failed", txn) EXCEPT !.error = o.error]

\* create: lines 154-174; update: lines 230-254
TxnBegin ==
    /\ txn.pc = "idle"
    /\ txn.count < MaxTxns
    /\ \/ /\ \E r \in RecipeIds : ~Exists(Store, r)
          /\ \E data \in CreateData :
              LET r == FreeRecipeId
                  o == AddRecipe(Store, r, data)
                  t == [pc |-> "ingredients", count |-> txn.count + 1,
                        op |-> "create", recipe |-> r, data |-> data,
                        base |-> Store, error |-> "ok"]
              IN  /\ session' = IF o.error = "ok" THEN o.store ELSE Store
                  /\ txn' = IF o.error = "ok" THEN t
                            ELSE [t EXCEPT !.pc = "failed", !.error = o.error]
                  /\ SetStore(SessionFlush(Store, session'))
       \/ /\ \E r \in RecipeIds, data \in UpdateData :
              /\ Exists(Store, r)
              /\ ShouldIncrementVersion(data) => recipes[r].version < MaxVersion
              /\ session' = UpdateFields(Store, r, data).store
              /\ txn' = [pc |-> "ingredients", count |-> txn.count + 1,
                         op |-> "update", recipe |-> r, data |-> data,
                         base |-> Store, error |-> "ok"]
              /\ UNCHANGED dbvars
    /\ seen' = NotSeen
    /\ UNCHANGED <<lastOp, calcvars, auxvars>>

\* create: lines 177-178; update: lines 257-263
TxnIngredients ==
    /\ txn.pc = "ingredients"
    /\ LET o == IF ~txn.data.has_ingredients THEN Ok(session)
                ELSE IF txn.op = "create"
                THEN CreateIngredients(session, txn.recipe,
                         txn.data.ingredients, txn.data.ingredients_resp)
                ELSE ReplaceIngredients(session, txn.recipe,
                         txn.data.ingredients, txn.data.ingredients_resp)
       IN  Advance(o, "validate")
    /\ seen' = NotSeen
    /\ UNCHANGED <<dbvars, lastOp, calcvars, auxvars>>

\* self._validate_recipe(recipe)
TxnValidate ==
    /\ txn.pc = "validate"
    /\ Advance(ValidateRecipe(session, txn.recipe), "dependencies")
    /\ seen' = NotSeen
    /\ UNCHANGED <<dbvars, lastOp, calcvars, auxvars>>

\* self._update_dependencies(recipe), its query flushing the session first
TxnDependencies ==
    /\ txn.pc = "dependencies"
    /\ LET d == FlushIngredients(session, txn.recipe, Inserted(txn.data))
           o == IF d.error # "ok" THEN d
                ELSE UpdateDependencies(d.store, txn.recipe)
       IN  Advance(o, "commit")
    /\ seen' = NotSeen
    /\ SetStore(SessionFlush(Store, session'))
    /\ UNCHANGED <<lastOp, calcvars, auxvars>>

\* create: line 190; update: lines 275-281
TxnCommit ==
    /\ txn.pc = "commit"
    /\ LET o == IF txn.op = "create" THEN Ok(session)
                ELSE IncrementVersion(session, txn.recipe, txn.data)
       IN  IF o.error = "ok"
           THEN /\ SetStore(Commit(Store, o.store))
                /\ txn' = Idle(txn.count)
                /\ session' = EmptyStore
           ELSE /\ Advance(o, "commit")
                /\ UNCHANGED dbvars
    /\ seen' = NotSeen
    /\ UNCHANGED <<lastOp, calcvars, auxvars>>

\* the except clauses: self.session.rollback(); raise
TxnRollback ==
    /\ txn.pc = "failed"
    /\ SetStore(Rollback(Store, session))
    /\ txn' = Idle(txn.count)
    /\ session' = EmptyStore
    /\ seen' = NotSeen
    /\ UNCHANGED <<lastOp, calcvars, auxvars>>

\* RecipeRepository.get_by_id(recipe_id, include_relationships=True) in
\* another session, while the call is in progress
GetById ==
    /\ txn.pc # "idle"
    /\ seen = NotSeen
    /\ \E r \in RecipeIds :
        LET V == ReaderView(Store, session)
        IN  seen' = [call |-> "get_by_id", recipe |-> r,
                     row |-> V.recipes[r], rows |-> V.ingredients[r]]
    /\ UNCHANGED <<dbvars, lastOp, session, txn, calcvars, auxvars>>

\* RecipeRepository.get_recipe_dependencies(recipe_id) in another session
GetRecipeDependencies ==
    /\ txn.pc # "idle"
    /\ seen = NotSeen
    /\ \E r \in RecipeIds :
        LET V == ReaderView(Store, session)
        IN  seen' = [call |-> "get_recipe_dependencies", recipe |-> r,
                     row |-> V.recipes[r], rows |-> V.dependencies[r]]
    /\ UNCHANGED <<dbvars, lastOp, session, txn, calcvars, auxvars>>

NextTxn ==
    \/ TxnBegin \/ TxnIngredients \/ TxnValidate \/ TxnDependencies
    \/ TxnCommit \/ TxnRollback \/ GetById \/ GetRecipeDependencies

SpecTxn == Init /\ [][NextTxn]_vars

(***************************************************************************)
(* CalculationService.calculate_recipe.  The recursion of                  *)
(* _expand_hierarchical_recipe is taken one step at a time: calc.stack     *)
(* holds one frame per call in progress, the innermost last.               *)
(***************************************************************************)
\* RecipeClient.get_recipe
GetRecipe(product_id) == catalog[product_id]

\* a call of _expand_hierarchical_recipe: its arguments, the index i of the
\* ingredient the loop is at, and expanded_ingredients so far
Frame(recipe_data, scale_factor, current_depth) ==
    [recipe_data |-> recipe_data, scale_factor |-> scale_factor,
     current_depth |-> current_depth, i |-> 1, expanded |-> <<>>]

\* the innermost call
Top == calc.stack[Len(calc.stack)]

\* variant: the test lets one more level through
DepthReachedLate(current_depth, max_depth) == current_depth >= max_depth + 1

\* if current_depth >= max_depth
DepthReached(current_depth, max_depth) == current_depth >= max_depth

\* the scaled ingredient with the keys added after the recursive call
Expanded(scaled_ingredient, sub_ingredients, current_depth) ==
    scaled_ingredient @@ [sub_ingredients |-> sub_ingredients,
                          expanded |-> TRUE, depth |-> current_depth]

\* calculate_recipe raises CalculationError for whatever was raised inside
Raise(C, cause) ==
    [C EXCEPT !.pc = "failed", !.error = "CalculationError: " \o cause]

\* calculate_recipe, lines 347-365: the result, with the ingredients and
\* the scale factor rounded to 6 places
Result(C, scale_factor, list) ==
    [C EXCEPT !.pc = "done", !.stack = <<>>, !.ingredients = list,
              !.scale_factor = Round6(scale_factor)]

\* the innermost call goes on with its next ingredient
Append1(C, item) ==
    LET n == Len(C.stack)
    IN  [C EXCEPT !.stack[n].expanded = Append(@, item),
                  !.stack[n].i = @ + 1]

\* the innermost call returns list: to calculate_recipe, which returns the
\* result, or to the call below, which adds it to the ingredient it is at
Return(C, list) ==
    LET n == Len(C.stack)
    IN  IF n = 1
        THEN Result(C, C.stack[1].scale_factor, list)
        ELSE LET caller == C.stack[n - 1]
                 scaled_ingredient ==
                     ScaleIngredient(caller.recipe_data.ingredients[caller.i],
                         caller.scale_factor, C.request.precision)
             IN  Append1([C EXCEPT !.stack = SubSeq(@, 1, n - 1)],
                         Expanded(scaled_ingredient, list,
                                  caller.current_depth))

\* the schema, then calculate_recipe from line 320 up to the scaling of the
\* ingredients
Calculate(request) ==
    LET C == [CalcIdle EXCEPT !.request = request]
        recipe_data == GetRecipe(request.product_id)
    IN  IF ~ValidRequest(request) THEN [C EXCEPT !.pc = "rejected"]
        ELSE IF recipe_data.status = "error"
        THEN Raise(C, "RecipeServiceError")
        ELSE IF recipe_data.status = "not_found"
        THEN Raise(C, "RecipeNotFoundError")
        ELSE
          LET f == CalculateScaleFactor(recipe_data.yield_quantity,
                       recipe_data.yield_unit, request.target_quantity,
                       request.target_unit)
              s == ScaleRecipeIngredients(recipe_data, f.scale_factor,
                       request.precision)
          IN  IF f.error # "ok" THEN Raise(C, f.error)
              ELSE IF request.include_hierarchy
              THEN [C EXCEPT !.pc = "expanding",
                      !.stack = <<Frame(recipe_data, f.scale_factor, 0)>>]
              ELSE IF s.error # "ok" THEN Raise(C, s.error)
              ELSE Result(C, f.scale_factor, s.ingredients)

\* POST /calculate with ENABLE_RESULT_CACHING off
CalculateRecipe ==
    /\ calc.pc = "idle"
    /\ \E request \in Requests : calc' = Calculate(request)
    /\ UNCHANGED <<storevars, catalog, auxvars>>

\* _expand_hierarchical_recipe, lines 229-235: at max_depth the ingredients
\* are scaled and returned
DepthLimitReturn ==
    /\ calc.pc = "expanding"
    /\ DepthReached(Top.current_depth, calc.request.max_depth)
    /\ LET s == ScaleRecipeIngredients(Top.recipe_data, Top.scale_factor,
                    calc.request.precision)
       IN  calc' = IF s.error # "ok" THEN Raise(calc, s.error)
                   ELSE Return(calc, s.ingredients)
    /\ UNCHANGED <<storevars, catalog, auxvars>>

\* _expand_hierarchical_recipe, lines 240-277: one turn of the loop, up to
\* the recursive call or to the append
ExpandIngredient ==
    /\ calc.pc = "expanding"
    /\ ~DepthReached(Top.current_depth, calc.request.max_depth)
    /\ Top.i <= Len(Top.recipe_data.ingredients)
    /\ LET ingredient == Top.recipe_data.ingredients[Top.i]
           scaled_ingredient ==
               ScaleIngredient(ingredient, Top.scale_factor,
                               calc.request.precision)
           sub_recipe == GetRecipe(ingredient.product_id)
       IN  calc' =
             IF sub_recipe.status = "error"
             THEN Append1(calc, scaled_ingredient)
             ELSE IF sub_recipe.status = "not_found"
             THEN Append1(calc, scaled_ingredient)
             ELSE IF sub_recipe.type # "semi-product"
             THEN Append1(calc, scaled_ingredient)
             ELSE IF sub_recipe.yield_quantity = None
             THEN Raise(calc, "TypeError")
             ELSE IF sub_recipe.yield_quantity > 0
             THEN [calc EXCEPT !.stack = Append(@,
                      Frame(sub_recipe,
                            SubScaleFactor(
                                scaled_ingredient.calculated_quantity,
                                sub_recipe.yield_quantity),
                            Top.current_depth + 1))]
             ELSE Append1(calc, scaled_ingredient)
    /\ UNCHANGED <<storevars, catalog, auxvars>>

\* _expand_hierarchical_recipe, line 279: return expanded_ingredients
ReturnExpanded ==
    /\ calc.pc = "expanding"
    /\ ~DepthReached(Top.current_depth, calc.request.max_depth)
    /\ Top.i > Len(Top.recipe_data.ingredients)
    /\ calc' = Return(calc, Top.expanded)
    /\ UNCHANGED <<storevars, catalog, auxvars>>

\* any recipe data may be served
InitCalc ==
    /\ InitStore
    /\ catalog \in Catalogs
    /\ calc = CalcIdle
    /\ InitAux

\* the steps of a call once it has begun
ExpandStep == DepthLimitReturn \/ ExpandIngredient \/ ReturnExpanded

NextCalc ==
    CalculateRecipe \/ DepthLimitReturn \/ ExpandIngredient \/ ReturnExpanded

SpecCalc == InitCalc /\ [][NextCalc]_vars

\* a call in progress is not abandoned: the interpreter runs it on
SpecCalcFair == SpecCalc /\ WF_vars(ExpandStep)

(***************************************************************************)
(* Helper methods of CalculationService called on their own, once, on      *)
(* arguments drawn from the sets below.                                    *)
(***************************************************************************)
\* _generate_cache_key: the md5 digest of the JSON text of cache_data, taken
\* as the text itself (different texts, different digests)
GenerateCacheKey(product_id, target_quantity, target_unit, include_hierarchy, max_depth) ==
    [product_id |-> product_id, target_quantity |-> target_quantity,
     target_unit |-> target_unit, include_hierarchy |-> include_hierarchy,
     max_depth |-> max_depth, version |-> "v1"]

\* calculate_recipe, lines 307-309: the key of a request
CacheKeyOf(request) ==
    GenerateCacheKey(request.product_id, request.target_quantity,
                     request.target_unit, request.include_hierarchy,
                     request.max_depth)

\* the fields of a request the cache key is asked for
KeyRequests ==
    {Request(p, q, u, h, m, pr) :
        p \in {1, 2}, q \in {Ticks, 2 * Ticks}, u \in {"gram", "piece"},
        h \in BOOLEAN, m \in {1, 2}, pr \in {None, 0}}

\* _validate_scale_factor(scale_factor), of scale factors n / d around the
\* ends of the allowed window
ValidateScaleFactorCall ==
    /\ fn = NoCall
    /\ \E n \in {-1, 0, 1, 2, 999, 1000, 1001}, d \in {1, 2, 999, 1000, 1001} :
        LET sf == [num |-> n, den |-> d]
        IN  fn' = [name |-> "_validate_scale_factor", scale_factor |-> sf,
               result |-> ValidateScaleFactor(sf)]
    /\ UNCHANGED <<storevars, calcvars, cache, served, netvars>>

\* _round_quantity(quantity, unit, precision), and _round_quantity again of
\* what it returned: quantities of n / d thousandths around the rounding
\* points, precision not given or a number of decimal places
RoundQuantityCall ==
    /\ fn = NoCall
    /\ \E n \in {0, 1, 40, 50, 140, 150, 250, 449, 450, 949, 950, 999, 1000,
                 1400, 1499, 1500, 2500, 12345},
          d \in {1, 2, 3}, unit \in {"piece", "gram"},
          precision \in {None, 0, 1, 2, 3} :
        LET q == [num |-> n, den |-> d]
            rounded == RoundQuantity(q.num, q.den, unit, precision)
        IN  fn' = [name |-> "_round_quantity", quantity |-> q,
                   unit |-> unit, precision |-> precision,
                   result |-> rounded,
                   again |-> RoundQuantity(rounded, 1, unit, precision)]
    /\ UNCHANGED <<storevars, calcvars, cache, served, netvars>>

\* the cache keys of two requests that are equal or differ in one field
GenerateCacheKeyCall ==
    /\ fn = NoCall
    /\ \E a \in KeyRequests, b \in KeyRequests :
        /\ Cardinality({f \in DOMAIN a : a[f] # b[f]}) <= 1
        /\ fn' = [name |-> "_generate_cache_key", a |-> a, b |-> b,
                  key_a |-> CacheKeyOf(a), key_b |-> CacheKeyOf(b)]
    /\ UNCHANGED <<storevars, calcvars, cache, served, netvars>>

NextFn == ValidateScaleFactorCall \/ RoundQuantityCall \/ GenerateCacheKeyCall

SpecFn == Init /\ [][NextFn]_vars

(***************************************************************************)
(* calculate_recipe and calculate_batch with ENABLE_RESULT_CACHING on,     *)
(* each call taken as one step, for requests without hierarchy: single     *)
(* calls and expiries up to the first batch.                               *)
(***************************************************************************)
\* the longest batch
MaxBatch == 2

CacheRequests ==
    {Request(p, 3 * Ticks, "gram", FALSE, 1, pr) :
        p \in {1, 2}, pr \in {None, 0}}

\* what the cache does during a call: it works, cache.get raises,
\* cache.set raises
Faults == {"none", "get", "set"}

\* calculate_recipe, lines 347-365: the dictionary returned and cached
ResultDict(C) ==
    [product_id |-> C.request.product_id,
     target_quantity |-> C.request.target_quantity,
     target_unit |-> C.request.target_unit,
     scale_factor |-> C.scale_factor,
     ingredients |-> C.ingredients,
     precision |-> IF C.request.precision \in {None, 0}
                   THEN precision_places ELSE C.request.precision,
     cached |-> FALSE]

\* a result without the fields that tell how it was obtained
Content(result) == [result EXCEPT !.cached = FALSE]

\* calculate_recipe on the cache store: what it returns or raises and the
\* cache it leaves
CalculateRecipeCached(store, request, fault) ==
    LET cache_key == CacheKeyOf(request)
        C == Calculate(request)
    IN  IF fault = "get"
        THEN [outcome |-> "raised", error |-> "ConnectionError",
              cache |-> store]
        ELSE IF cache_key \in DOMAIN store
        THEN [outcome |-> "returned",
              result |-> [store[cache_key] EXCEPT !.cached = TRUE],
              cache |-> store]
        ELSE IF C.pc # "done"
        THEN [outcome |-> "raised", error |-> C.error, cache |-> store]
        ELSE IF fault = "set"
        THEN [outcome |-> "raised",
              error |-> "CalculationError: ConnectionError",
              cache |-> store]
        ELSE [outcome |-> "returned", result |-> ResultDict(C),
              cache |-> (cache_key :> ResultDict(C)) @@ store]

\* calculate_batch, lines 413-436: the loop from item i on
RECURSIVE BatchLoop(_, _, _, _, _, _)
BatchLoop(store, calculations, fault, i, results, errors) ==
    IF i > Len(calculations)
    THEN [results |-> results, errors |-> errors, cache |-> store]
    ELSE LET r == CalculateRecipeCached(store, calculations[i], fault)
         IN  IF r.outcome = "returned"
             THEN BatchLoop(r.cache, calculations, fault, i + 1,
                            Append(results, r.result), errors)
             ELSE BatchLoop(r.cache, calculations, fault, i + 1, results,
                            Append(errors,
                                [index |-> i - 1,
                                 product_id |-> calculations[i].product_id,
                                 error |-> r.error]))

\* cache.set is reached by this request on this cache
SetReached(store, request) ==
    /\ CacheKeyOf(request) \notin DOMAIN store
    /\ Calculate(request).pc = "done"

\* one call of calculate_recipe
CalculateRecipeCall ==
    /\ served.call # "calculate_batch"
    /\ \E request \in CacheRequests, fault \in Faults :
        /\ fault = "set" => SetReached(cache, request)
        /\ LET r == CalculateRecipeCached(cache, request, fault)
           IN  /\ served' = [call |-> "calculate_recipe",
                             request |-> request, fault |-> fault,
                             returned |-> [r EXCEPT !.cache = <<>>]]
               /\ cache' = r.cache
    /\ UNCHANGED <<storevars, calcvars, fn, netvars>>

\* one call of calculate_batch
CalculateBatchCall ==
    /\ served.call # "calculate_batch"
    /\ \E n \in 1..MaxBatch :
       \E calculations \in [1..n -> CacheRequests], fault \in Faults :
        LET b == BatchLoop(cache, calculations, fault, 1, <<>>, <<>>)
        IN  /\ served' = [call |-> "calculate_batch",
                          calculations |-> calculations, fault |-> fault,
                          before |-> cache,
                          results |-> b.results,
                          summary |->
                              [total_requests |-> Len(calculations),
                               successful |-> Len(b.results),
                               failed |-> Len(b.errors),
                               errors |-> b.errors]]
            /\ cache' = b.cache
    /\ UNCHANGED <<storevars, calcvars, fn, netvars>>

\* an entry reaches its CALCULATION_CACHE_TTL
CacheExpire ==
    /\ served.call # "calculate_batch"
    /\ \E cache_key \in DOMAIN cache :
        cache' = [k \in DOMAIN cache \ {cache_key} |-> cache[k]]
    /\ UNCHANGED <<storevars, calcvars, fn, served, netvars>>

\* the recipe-service holds standard recipes while the cache is in use
InitCache ==
    /\ InitStore
    /\ catalog \in
          {c \in Catalogs :
              /\ c[1].status = "ok" /\ c[1].type = "standard"
              /\ c[2].status = "ok" =>
                     c[2].type = "standard" /\ c[2].yield_quantity = Ticks
              /\ c[3] = NotFound}
    /\ calc = CalcIdle
    /\ InitAux

NextCache == CalculateRecipeCall \/ CalculateBatchCall \/ CacheExpire

SpecCache == InitCache /\ [][NextCache]_vars

(***************************************************************************)
(* Two calculate_recipe requests with the same cache key running at the    *)
(* same time: the cache lookup, the calculation and the cache write of     *)
(* each are separate steps.                                                *)
(***************************************************************************)
\* lines 305-319: the key, cache.get, and the cached result returned
ProcGet(p) ==
    /\ procs[p].pc = "idle"
    /\ \E request \in CacheRequests :
        /\ \A q \in {b \in Procs : procs[b].pc # "idle"} :
              CacheKeyOf(procs[q].request) = CacheKeyOf(request)
        /\ LET cache_key == CacheKeyOf(request)
           IN  procs' = [procs EXCEPT ![p] =
                   IF cache_key \in DOMAIN cache
                   THEN [@ EXCEPT !.pc = "done", !.request = request,
                             !.result = [cache[cache_key] EXCEPT !.cached = TRUE]]
                   ELSE [@ EXCEPT !.pc = "computing", !.request = request,
                             !.missed = TRUE]]
    /\ UNCHANGED <<storevars, calcvars, fn, cache, served, client, breaker>>

\* the calculation held back while another request computes or writes
ProcComputeLocked(p) ==
    /\ procs[p].pc = "computing"
    /\ \A q \in Procs \ {p} : procs[q].pc \notin {"computing", "writing"}
    /\ LET C == Calculate(procs[p].request)
       IN  procs' = [procs EXCEPT ![p] =
               IF C.pc # "done"
               THEN [@ EXCEPT !.pc = "failed", !.error = C.error]
               ELSE [@ EXCEPT !.pc = "writing", !.result = ResultDict(C)]]
    /\ UNCHANGED <<storevars, calcvars, fn, cache, served, client, breaker>>

\* lines 320-365: the recipe fetched, the ingredients scaled, the result
ProcCompute(p) ==
    /\ procs[p].pc = "computing"
    /\ LET C == Calculate(procs[p].request)
       IN  procs' = [procs EXCEPT ![p] =
               IF C.pc # "done"
               THEN [@ EXCEPT !.pc = "failed", !.error = C.error]
               ELSE [@ EXCEPT !.pc = "writing", !.result = ResultDict(C)]]
    /\ UNCHANGED <<storevars, calcvars, fn, cache, served, client, breaker>>

\* lines 367-381: cache.set and the result returned
ProcSet(p) ==
    /\ procs[p].pc = "writing"
    /\ cache' = (CacheKeyOf(procs[p].request) :> procs[p].result) @@ cache
    /\ procs' = [procs EXCEPT ![p].pc = "done"]
    /\ UNCHANGED <<storevars, calcvars, fn, served, client, breaker>>

ProcStep(p) == ProcGet(p) \/ ProcCompute(p) \/ ProcSet(p)

NextRace == \E p \in Procs : ProcStep(p)

SpecRace == InitCache /\ [][NextRace]_vars

(***************************************************************************)
(* RecipeServiceClient.get_recipe: one step for each pass of the loop of   *)
(* _make_request.  Texts are sequences of characters.                      *)
(***************************************************************************)
\* the largest RECIPE_SERVICE_RETRIES
MaxRetries == 3

\* what an attempt meets: a response with a status code, a timeout, any
\* other exception of the transport
Status(code) == [kind |-> "status", code |-> code]

Timeout == [kind |-> "timeout", code |-> 0]

Transport == [kind |-> "transport", code |-> 0]

Digit(k) == <<"0", "1", "2", "3", "4", "5", "6", "7", "8", "9">>[k + 1]

\* a status code as it is printed
StatusText(code) ==
    <<Digit(code \div 100), Digit((code \div 10) % 10), Digit(code % 10)>>

\* str(e) of httpx.HTTPStatusError: the status, the url requested (base
\* url, /api/v1/recipes/product/ and the id), and the status again in the
\* link that explains it
StatusErrorText(code, product_id) ==
    LET Url == <<"8", "0", "0", "2", "/", "1", "/">> \o product_id
    IN  StatusText(code) \o <<" ">> \o Url \o <<" ">> \o StatusText(code)

\* the message of the RecipeServiceError raised for answer, lines 98, 111,
\* 114 and 125
ErrorMessage(answer, retries, product_id) ==
    IF answer.kind = "timeout" THEN <<Digit(retries + 1), " ">>
    ELSE IF answer.kind = "transport" THEN <<"1", "1", "1">>
    ELSE IF answer.code < 500
    THEN StatusText(answer.code) \o <<" ">>
             \o StatusErrorText(answer.code, product_id)
    ELSE <<Digit(retries + 1), " ">>
             \o StatusErrorText(answer.code, product_id)

\* "404" in str(e)
Contains404(text) ==
    \E i \in 1..(Len(text) - 2) : SubSeq(text, i, i + 2) = <<"4", "0", "4">>

\* line 110 with the lower limit left out of the range
ClientErrorAbove400(code) == 400 < code /\ code < 500

\* line 110: 400 <= status_code < 500
ClientError(code) == 400 <= code /\ code < 500

RECURSIVE Pow2(_)
Pow2(k) == IF k = 0 THEN 1 ELSE 2 * Pow2(k - 1)

\* the wait growing by 0.1 s each time
WaitTimeLinear(attempt) == (attempt + 1) * 100

\* line 129: wait_time = (2 ** attempt) * 0.1, in milliseconds
WaitTime(attempt) == Pow2(attempt) * 100

\* get_recipe(product_id) is called, with a product id without or with
\* the digits 404
GetRecipeCall ==
    /\ client.pc = "idle"
    /\ \E retries \in 0..MaxRetries,
          product_id \in {<<"a", "7", "1">>, <<"e", "4", "0", "4">>} :
        client' = [ClientIdle EXCEPT !.pc = "requesting",
                                     !.retries = retries,
                                     !.product_id = product_id]
    /\ UNCHANGED <<storevars, calcvars, fn, cache, served, procs, breaker>>

\* _make_request has raised RecipeServiceError(message): get_recipe returns
\* None or lets it through
Raised(C, message) ==
    [C EXCEPT !.pc = "raised", !.message = message,
              !.returns = IF Contains404(message) THEN "None"
                          ELSE "RecipeServiceError"]

\* one pass of the loop, lines 70-130: the request, the handler of what it
\* met, the sleep
Attempt ==
    /\ client.pc = "requesting"
    /\ \E answer \in {Status(c) : c \in {200, 400, 404, 409, 500, 503}}
                         \cup {Timeout, Transport} :
        LET C == [client EXCEPT !.attempts = @ + 1,
                                !.answers = Append(@, answer)]
            message == ErrorMessage(answer, client.retries, client.product_id)
        IN  client' =
              IF answer.kind = "status" /\ answer.code = 200
              THEN [C EXCEPT !.pc = "returned", !.returns = "recipe"]
              ELSE IF answer.kind = "status" /\ ClientError(answer.code)
              THEN Raised(C, message)
              ELSE IF client.attempt = client.retries
              THEN Raised(C, message)
              ELSE [C EXCEPT !.attempt = @ + 1,
                             !.waits = Append(@, WaitTime(client.attempt))]
    /\ UNCHANGED <<storevars, calcvars, fn, cache, served, procs, breaker>>

NextClient == GetRecipeCall \/ Attempt

SpecClient == Init /\ [][NextClient]_vars

(***************************************************************************)
(* The gateway's CircuitBreaker (api-gateway service_client.py, 22-61).    *)
(* breaker holds the object's fields, the clock time.time() reads (now),   *)
(* and what the last call through it did: the state it found (before), the *)
(* time since the last failure it found (elapsed), whether func was        *)
(* invoked, how the call ended, and the number of invoked calls that have  *)
(* failed in a row (consecutive).                                          *)
(***************************************************************************)

\* CIRCUIT_BREAKER_FAILURE_THRESHOLD and CIRCUIT_BREAKER_RECOVERY_TIMEOUT
\* (5 and 60 seconds by default), kept small here
failure_threshold == 3
recovery_timeout == 2

\* the clock stops here
MaxClock == 6

\* lines 34-39: a breaker that is not OPEN lets the call through; an OPEN one
\* only when time.time() - last_failure_time > recovery_timeout
Admitted(B) ==
    \/ B.state # "OPEN"
    \/ B.now - B.last_failure_time > recovery_timeout

\* lines 42-47: func returned
Succeeded(B) ==
    IF B.state = "HALF_OPEN"
    THEN [B EXCEPT !.state = "CLOSED", !.failure_count = 0]
    ELSE B

\* lines 49-61: func raised
Failed(B) ==
    [B EXCEPT !.failure_count = @ + 1,
              !.last_failure_time = B.now,
              !.state = IF B.failure_count + 1 >= failure_threshold
                        THEN "OPEN" ELSE @]

\* CircuitBreaker.call(func), the whole method: func returns or raises, and
\* an OPEN breaker that lets the call through is HALF_OPEN when func runs
\* (lines 34-37)
BreakerCall ==
    /\ \E outcome \in {"returns", "raises"} :
        LET B == [breaker EXCEPT
                    !.before = breaker.state,
                    !.elapsed = IF breaker.last_failure_time = None THEN None
                                ELSE breaker.now - breaker.last_failure_time]
            Entered == IF B.state = "OPEN"
                       THEN [B EXCEPT !.state = "HALF_OPEN"] ELSE B
        IN  breaker' =
              IF ~Admitted(breaker)
              THEN [B EXCEPT !.call = "CircuitBreakerOpenError",
                             !.invoked = FALSE]
              ELSE IF outcome = "returns"
              THEN [Succeeded(Entered) EXCEPT !.call = "returned",
                                              !.invoked = TRUE,
                                              !.consecutive = 0]
              ELSE [Failed(Entered) EXCEPT !.call = "raised",
                                           !.invoked = TRUE,
                                           !.consecutive = @ + 1]
    /\ UNCHANGED <<storevars, calcvars, fn, cache, served, client, procs>>

\* a second passes
Tick ==
    /\ breaker.now < MaxClock
    /\ breaker' = [breaker EXCEPT !.now = @ + 1]
    /\ UNCHANGED <<storevars, calcvars, fn, cache, served, client, procs>>

NextBreaker == BreakerCall \/ Tick

SpecBreaker == Init /\ [][NextBreaker]_vars

(***************************************************************************)
(* Properties of the repository calls.                                     *)
(***************************************************************************)
\* C1: starting from the empty (acyclic) graph, after any sequence of
\* accepted create and update calls the product graph (edge A -> B iff an
\* active recipe of A lists B as an ingredient) is acyclic.
C1_GraphStaysAcyclic == Acyclic(Store)

\* C2: a create or update that would close a cycle is rejected with
\* CircularDependencyError and leaves the recipe, ingredient and dependency
\* rows exactly as they were.
C2_CycleRejectedWithCircularDependencyError ==
    [][lastOp'.closes_cycle =>
          lastOp'.error = "CircularDependencyError" /\ UNCHANGED dbvars]_vars

C4_ReadersSeeCommittedRows ==
    txn.pc # "idle" =>
        /\ Store = txn.base
        /\ seen.call = "get_by_id" =>
              /\ seen.row = txn.base.recipes[seen.recipe]
              /\ seen.rows = txn.base.ingredients[seen.recipe]
        /\ seen.call = "get_recipe_dependencies" =>
              seen.rows = txn.base.dependencies[seen.recipe]

\* a reader ran while the writing session held new ingredient rows for the
\* recipe it read
C4_Witness ==
    /\ txn.pc \in {"validate", "dependencies", "commit", "failed"}
    /\ seen.call = "get_by_id"
    /\ seen.recipe = txn.recipe
    /\ session.ingredients[txn.recipe] # seen.rows

\* C5: after every committed change the dependency rows of each recipe name
\* exactly the products of its ingredient rows.
C5_DependenciesMatchIngredients ==
    \A r \in RecipeIds :
        Exists(Store, r) => dependencies[r] = IngredientProducts(ingredients[r])

C7_ExpansionBoundedAndTerminates ==
    /\ [](/\ Len(calc.stack) <= calc.request.max_depth + 1
          /\ \A k \in 1..Len(calc.stack) :
              /\ calc.stack[k].current_depth = k - 1
              /\ calc.stack[k].current_depth <= calc.request.max_depth
              /\ calc.stack[k].current_depth
                     <= IF calc.request.max_depth >= HardCeiling
                        THEN calc.request.max_depth ELSE HardCeiling)
    /\ (calc.pc = "expanding" ~> calc.pc \in {"done", "failed"})

\* the recursion stands at max_depth on a cyclic path: the recipe of one
\* product is being expanded inside its own expansion
C7_Witness ==
    /\ calc.pc = "expanding"
    /\ Len(calc.stack) = calc.request.max_depth + 1
    /\ \E j, k \in 1..Len(calc.stack) :
          /\ j < k
          /\ calc.stack[j].recipe_data.product_id
                 = calc.stack[k].recipe_data.product_id

\* the entries d levels below list that would have been expanded with depth
\* left (their product is served as a semi-product with a positive yield)
\* all carry a key beyond those of a plain scaled ingredient
RECURSIVE MarkedAt(_, _)
MarkedAt(list, d) ==
    \A k \in 1..Len(list) :
        IF d = 0
        THEN (/\ catalog[list[k].product_id].status = "ok"
              /\ catalog[list[k].product_id].type = "semi-product"
              /\ catalog[list[k].product_id].yield_quantity # None
              /\ catalog[list[k].product_id].yield_quantity > 0)
                 => DOMAIN list[k] # ScaledKeys
        ELSE "sub_ingredients" \in DOMAIN list[k]
                 => MarkedAt(list[k].sub_ingredients, d - 1)

\* C8: in the result of a hierarchical calculation every ingredient left
\* unexpanded because max_depth was reached carries an explicit marker: it
\* is not the same dictionary as a leaf ingredient.
C8_DepthExceededMarked ==
    (calc.pc = "done" /\ calc.request.include_hierarchy)
        => MarkedAt(calc.ingredients, calc.request.max_depth)

\* every expanded entry of list holds the rows of its sub-recipe, in order,
\* each with its quantity times (calculated quantity of the entry /
\* yield_quantity of the sub-recipe), rounded by the unit's rule
RECURSIVE SubQuantitiesScaled(_)
SubQuantitiesScaled(list) ==
    \A k \in 1..Len(list) :
        "sub_ingredients" \in DOMAIN list[k] =>
            LET sub == list[k].sub_ingredients
                sub_recipe == catalog[list[k].product_id]
                rows == sub_recipe.ingredients
            IN  /\ Len(sub) = Len(rows)
                /\ \A j \in 1..Len(sub) :
                    /\ sub[j].product_id = rows[j].product_id
                    /\ sub[j].original_quantity = rows[j].quantity
                    /\ sub[j].calculated_quantity =
                          RoundQuantity(
                              rows[j].quantity * list[k].calculated_quantity,
                              sub_recipe.yield_quantity, rows[j].unit,
                              calc.request.precision)
                /\ SubQuantitiesScaled(sub)

C10_SubRecipeFailureDegrades ==
    /\ calc.pc = "failed" => calc.stack = <<>>
    /\ (calc.pc = "done" /\ calc.request.include_hierarchy) =>
          \A k \in 1..Len(calc.ingredients) :
              catalog[calc.ingredients[k].product_id].status = "error"
                  => DOMAIN calc.ingredients[k] = ScaledKeys

\* the call has returned or raised
Finished == calc.pc \in {"done", "failed"}

\* C12: calculate_recipe for a product whose recipe lookup answers not
\* found raises RecipeNotFoundError, an error of its own kind.
C12_NotFoundRaisesRecipeNotFoundError ==
    (Finished /\ catalog[calc.request.product_id].status = "not_found")
        => calc.pc = "failed" /\ calc.error = "RecipeNotFoundError"

\* C13: a calculation whose target_unit is not the yield_unit of the recipe
\* fails with InvalidInputError and returns no scaled quantity.
C13_UnitMismatchRaisesInvalidInputError ==
    (/\ Finished
     /\ catalog[calc.request.product_id].status = "ok"
     /\ catalog[calc.request.product_id].yield_unit
            # calc.request.target_unit)
        => /\ calc.pc = "failed"
           /\ calc.error = "InvalidInputError"
           /\ calc.ingredients = <<>>

(***************************************************************************)
(* Properties of the helper methods.                                       *)
(***************************************************************************)
\* C14: _validate_scale_factor rejects, with InvalidScaleFactorError, a
\* factor that is not positive, above max_scale_factor or below
\* min_scale_factor, and accepts every factor from min_scale_factor to
\* max_scale_factor, both ends included.
C14_ScaleFactorWindow ==
    fn.name = "_validate_scale_factor" =>
        LET n == fn.scale_factor.num
            d == fn.scale_factor.den
            inside == /\ n > 0
                      /\ n * min_scale_factor.den >= min_scale_factor.num * d
                      /\ n <= max_scale_factor * d
        IN  /\ inside => fn.result = "ok"
            /\ ~inside => fn.result = "InvalidScaleFactorError"

\* both ends of the window have been accepted and a factor just outside
\* each end rejected
C14_Witness ==
    /\ fn.name = "_validate_scale_factor"
    /\ fn.scale_factor = [num |-> 1000, den |-> 1]
    /\ fn.result = "ok"
    /\ ValidateScaleFactor([num |-> 1, den |-> 1000]) = "ok"
    /\ ValidateScaleFactor([num |-> 1001, den |-> 1]) # "ok"
    /\ ValidateScaleFactor([num |-> 1, den |-> 1001]) # "ok"

\* r is the multiple of quantum nearest to n / d, the upper one of two
\* equally near
NearestHalfUp(r, n, d, quantum) ==
    /\ r % quantum = 0
    /\ 2 * (r * d - n) <= quantum * d
    /\ 2 * (n - r * d) < quantum * d

\* C16: for a 'piece' quantity _round_quantity returns the nearest whole
\* number, halves up, when the quantity is at least 1, and the nearest
\* tenth, halves up, when it is below 1 (1.4 -> 1, 1.5 -> 2, 0.14 -> 0.1,
\* 0.15 -> 0.2), whatever the precision argument.
C16_PieceRounding ==
    (fn.name = "_round_quantity" /\ fn.unit = "piece") =>
        LET n == fn.quantity.num
            d == fn.quantity.den
        IN  /\ n >= Ticks * d => NearestHalfUp(fn.result, n, d, Ticks)
            /\ n < Ticks * d => NearestHalfUp(fn.result, n, d, Ticks \div 10)
            /\ fn.quantity = [num |-> 1400, den |-> 1] => fn.result = 1000
            /\ fn.quantity = [num |-> 1500, den |-> 1] => fn.result = 2000
            /\ fn.quantity = [num |-> 140, den |-> 1] => fn.result = 100
            /\ fn.quantity = [num |-> 150, den |-> 1] => fn.result = 200

\* 2.5 pieces rounded to 3 with a precision of 2 places given
C16_Witness ==
    /\ fn.name = "_round_quantity" /\ fn.unit = "piece"
    /\ fn.quantity = [num |-> 2500, den |-> 1]
    /\ fn.precision = 2
    /\ fn.result = 3000

\* C17: for a 'gram' quantity _round_quantity returns the nearest multiple
\* of 10^-precision, halves up; of 10^-3 when no precision is given; the
\* nearest whole unit when precision is 0.
C17_GramRounding ==
    (fn.name = "_round_quantity" /\ fn.unit = "gram") =>
        LET n == fn.quantity.num
            d == fn.quantity.den
        IN  /\ fn.precision = None => NearestHalfUp(fn.result, n, d, 1)
            /\ fn.precision = 0 => NearestHalfUp(fn.result, n, d, Ticks)
            /\ fn.precision = 1 => NearestHalfUp(fn.result, n, d, 100)
            /\ fn.precision = 2 => NearestHalfUp(fn.result, n, d, 10)
            /\ fn.precision = 3 => NearestHalfUp(fn.result, n, d, 1)

\* 0.45 gram rounded to the whole unit 0 with precision 0
C17_Witness ==
    /\ fn.name = "_round_quantity" /\ fn.unit = "gram"
    /\ fn.quantity = [num |-> 450, den |-> 1]
    /\ fn.precision = 0
    /\ fn.result = 0

\* C18: rounding what _round_quantity returned, with the same unit and
\* precision, returns it unchanged.
C18_RoundingIdempotent ==
    fn.name = "_round_quantity" => fn.again = fn.result

\* a quantity that rounding changed, across the limit between the two
\* 'piece' rules: 0.95 -> 1
C18_Witness ==
    /\ fn.name = "_round_quantity" /\ fn.unit = "piece"
    /\ fn.quantity = [num |-> 950, den |-> 1]
    /\ fn.result = 1000
    /\ fn.again = 1000

\* C19: equal requests have equal cache keys, and two requests that differ
\* in one of product_id, target_quantity, target_unit, include_hierarchy,
\* max_depth, precision have different keys.
C19_CacheKeyDistinguishesFields ==
    fn.name = "_generate_cache_key" =>
        /\ fn.a = fn.b => fn.key_a = fn.key_b
        /\ fn.a # fn.b => fn.key_a # fn.key_b

(***************************************************************************)
(* Properties of the scale factor of calculate_recipe.                     *)
(***************************************************************************)
RECURSIVE GCD(_, _)
GCD(a, b) == IF b = 0 THEN a ELSE GCD(b, a % b)

\* the fraction num / den in lowest terms
Reduced(num, den) ==
    [num |-> num \div GCD(num, den), den |-> den \div GCD(num, den)]

\* the recipe the call was made for
Requested == catalog[calc.request.product_id]

\* target_quantity / yield_quantity of the call
TargetOverYield ==
    Reduced(calc.request.target_quantity, Requested.yield_quantity)

\* every ingredient of the result is the recipe's ingredient scaled by
\* target_quantity / yield_quantity
ScaledByTargetOverYield ==
    /\ Len(calc.ingredients) = Len(Requested.ingredients)
    /\ \A k \in 1..Len(calc.ingredients) :
        LET row == Requested.ingredients[k]
        IN  calc.ingredients[k].calculated_quantity =
                RoundQuantity(row.quantity * calc.request.target_quantity,
                              Requested.yield_quantity, row.unit,
                              calc.request.precision)

\* C15 as stated: the scale factor used to scale the ingredients and the
\* one reported in the result both equal target_quantity / yield_quantity.
C15_ScaleFactorIsTargetOverYield ==
    calc.pc = "done" =>
        /\ ScaledByTargetOverYield
        /\ Reduced(calc.scale_factor, Millionths) = TargetOverYield

\* C15 amended: the ingredients are scaled by target_quantity /
\* yield_quantity, and the scale factor reported in the result is a number
\* of millionths not further than half a millionth from that ratio.
C15_ScaleFactorReportedRounded ==
    calc.pc = "done" =>
        /\ ScaledByTargetOverYield
        /\ 2 * (calc.scale_factor * TargetOverYield.den
                    - TargetOverYield.num * Millionths)
               <= TargetOverYield.den
        /\ 2 * (TargetOverYield.num * Millionths
                    - calc.scale_factor * TargetOverYield.den)
               <= TargetOverYield.den

\* 3 units asked of a recipe that yields 7: 0.428571 reported, 1.5 scaled
\* by 3 / 7 to 0.643
C15_Witness ==
    /\ calc.pc = "done"
    /\ Requested.yield_quantity = 7 * Ticks
    /\ calc.request.precision = None
    /\ calc.scale_factor = 428571
    /\ calc.ingredients[1].calculated_quantity = 643

(***************************************************************************)
(* Properties of the cache and of calculate_batch.                         *)
(***************************************************************************)
\* C20: when cache.get or cache.set raises during calculate_recipe, a
\* request whose calculation succeeds still returns the freshly computed
\* result.
C20_CacheFailureNeverFailsCalculation ==
    (/\ served.call = "calculate_recipe"
     /\ served.fault \in {"get", "set"}
     /\ Calculate(served.request).pc = "done")
        => /\ served.returned.outcome = "returned"
           /\ served.returned.result = ResultDict(Calculate(served.request))

\* what calculate_recipe does for item k of the batch, called alone on the
\* cache the batch found
Alone(k) ==
    CalculateRecipeCached(served.before, served.calculations[k], served.fault)

\* the items of the batch that fail
Failing == {k \in 1..Len(served.calculations) : Alone(k).outcome = "raised"}

\* C11: calculate_batch over N requests of which M fail returns N - M
\* results and the summary counts N, N - M and M, its error records carry
\* the indices of the failing requests, and each result equals what
\* calculate_recipe returns for that request alone.
C11_BatchEqualsSingleCalls ==
    served.call = "calculate_batch" =>
        LET N == Len(served.calculations)
            M == Cardinality(Failing)
            errors == served.summary.errors
            Succeeding == SelectSeq([k \in 1..N |-> k],
                                    LAMBDA k : k \notin Failing)
        IN  /\ Len(served.results) = N - M
            /\ served.summary.total_requests = N
            /\ served.summary.successful = N - M
            /\ served.summary.failed = M
            /\ Len(errors) = M
            /\ {errors[j].index : j \in 1..Len(errors)}
                   = {k - 1 : k \in Failing}
            /\ \A j \in 1..Len(served.results) :
                  Content(served.results[j])
                      = Content(Alone(Succeeding[j]).result)

(***************************************************************************)
(* Properties of RecipeServiceClient.                                      *)
(***************************************************************************)
\* a failure that is retried: a timeout, a 5xx status, a transport error
Retried(answer) == answer.kind # "status" \/ answer.code >= 500

\* C21: an attempt answered with a 4xx status is the last one: the call
\* raises RecipeServiceError with no sleep after it and no further attempt,
\* and a 4xx answer to the first attempt leaves exactly one attempt made,
\* whatever the retry budget.
C21_ClientErrorNotRetried ==
    \A k \in 1..Len(client.answers) :
        (client.answers[k].kind = "status"
            /\ client.answers[k].code \in 400..499)
        => /\ client.pc = "raised"
           /\ k = Len(client.answers)
           /\ client.attempts = k
           /\ Len(client.waits) = k - 1

\* 400 answered to the first attempt with three retries allowed
C21_Witness ==
    /\ client.pc = "raised"
    /\ client.retries = 3
    /\ client.answers = <<Status(400)>>
    /\ client.attempts = 1
    /\ client.waits = <<>>

\* C22: after each failed attempt but the last allowed one _make_request
\* sleeps 0.1 s doubled each time; it returns on the first successful
\* response; when every attempt fails with a timeout, a 5xx status or a
\* transport error it raises RecipeServiceError after exactly retries + 1
\* attempts; it never makes more attempts and never returns without a
\* response.
C22_RetriesWithBackoff ==
    LET n == Len(client.answers)
    IN  /\ client.attempts = n
        /\ n <= client.retries + 1
        /\ \A k \in 1..Len(client.waits) :
              client.waits[k] = 100 * Pow2(k - 1)
        /\ client.pc = "requesting" =>
              /\ Len(client.waits) = n
              /\ \A k \in 1..n : Retried(client.answers[k])
        /\ client.pc = "returned" =>
              /\ n >= 1
              /\ client.answers[n] = Status(200)
              /\ \A k \in 1..(n - 1) : Retried(client.answers[k])
              /\ Len(client.waits) = n - 1
        /\ (client.pc = "raised"
                /\ \A k \in 1..n : Retried(client.answers[k])) =>
              /\ n = client.retries + 1
              /\ Len(client.waits) = client.retries
        /\ (client.pc \in {"returned", "raised"}) \/ n <= client.retries

\* four failed attempts with a budget of 3 retries, after waits of 0.1,
\* 0.2 and 0.4 s
C22_Witness ==
    /\ client.pc = "raised"
    /\ client.retries = 3
    /\ client.answers = <<Timeout, Status(503), Transport, Status(500)>>
    /\ client.waits = <<100, 200, 400>>

\* C28: get_recipe returns None exactly when the recipe service answered
\* 404; every other failure raises RecipeServiceError.
C28_NoneOnlyOn404 ==
    client.pc \in {"returned", "raised"} =>
        LET last == client.answers[Len(client.answers)]
        IN  /\ client.returns = "None" <=> last = Status(404)
            /\ (client.pc = "raised" /\ last # Status(404)) =>
                  client.returns = "RecipeServiceError"

(***************************************************************************)
(* Properties of the recipe version and of activation.                     *)
(***************************************************************************)
\* C23: a recipe's version starts at 1; a step that commits an update whose
\* data contains ingredients, yield_quantity or yield_unit adds exactly 1
\* to it, and every other step (another update committing, a rejected
\* update rolling back, any statement in between) leaves it as it is, so
\* it never decreases.
C23_VersionGrowsByOneOnSignificantUpdate ==
    [][\A r \in RecipeIds :
          /\ (~Exists(Store, r) /\ recipes'[r].product_id # 0) =>
                recipes'[r].version = 1
          /\ Exists(Store, r) =>
                recipes'[r].version =
                    IF /\ txn.pc = "commit" /\ txn.op = "update"
                       /\ txn.recipe = r /\ txn'.pc = "idle"
                       /\ (txn.data.has_ingredients \/ txn.data.has_yield)
                    THEN recipes[r].version + 1
                    ELSE recipes[r].version]_vars

\* an update has been committed and the recipe's version is 2
C23_Witness ==
    /\ txn.pc = "idle" /\ txn.count = 2
    /\ \E r \in RecipeIds : Exists(Store, r) /\ recipes[r].version = 2

\* C26: an update that only changes a recipe's status to active is
\* rejected when the recipe's ingredients would make the graph of active
\* recipes cyclic: a step that makes a recipe active that was not, leaving
\* every ingredient row as it was, in an acyclic graph leaves the graph
\* acyclic.
C26_ActivationKeepsGraphAcyclic ==
    [][(/\ Acyclic(Store)
        /\ ingredients' = ingredients
        /\ \E r \in RecipeIds :
              /\ Exists(Store, r)
              /\ recipes[r].status # "active"
              /\ recipes'[r].status = "active"
              /\ recipes'[r].product_id = recipes[r].product_id) =>
          Acyclic([recipes |-> recipes', ingredients |-> ingredients',
                   dependencies |-> dependencies'])]_vars

(***************************************************************************)
(* Properties of the expansion: paths and the ingredient limit.            *)
(***************************************************************************)
\* C24: no call of _expand_hierarchical_recipe is made for a product that
\* is already on the path from the root: the products of the calls in
\* progress are all different.
C24_NoProductTwiceOnPath ==
    \A i \in 1..Len(calc.stack) : \A j \in 1..Len(calc.stack) :
        i < j => calc.stack[i].recipe_data.product_id
                     # calc.stack[j].recipe_data.product_id

\* a recipe reached by the call, the root or one being expanded, has more
\* ingredients than max_ingredients
OverLimit(recipe_data) == Len(recipe_data.ingredients) > max_ingredients

\* C29: a calculation over a root recipe with more than max_ingredients
\* ingredients fails with MaxIngredientsExceededError (as such or as the
\* cause of the error raised), with include_hierarchy false or true, and
\* no call in progress is on a recipe over the limit once its loop runs
\* (the root recipe being served and its scale factor accepted).
C29_TooManyIngredientsAlwaysFails ==
    /\ (/\ Finished
        /\ Requested.status = "ok"
        /\ CalculateScaleFactor(Requested.yield_quantity,
                                Requested.yield_unit,
                                calc.request.target_quantity,
                                calc.request.target_unit).error = "ok"
        /\ OverLimit(Requested)) =>
          /\ calc.pc = "failed"
          /\ calc.error \in {"MaxIngredientsExceededError",
                             "CalculationError: MaxIngredientsExceededError"}
    /\ \A k \in 1..Len(calc.stack) :
          (OverLimit(calc.stack[k].recipe_data) /\ calc.stack[k].i > 1) =>
              calc.pc = "failed"

(***************************************************************************)
(* Properties of the cache under repeated and concurrent requests.         *)
(***************************************************************************)
\* both requests missed the cache, computed, wrote and returned
BothComputedAndWrote ==
    \A p \in Procs : procs[p].pc = "done" /\ procs[p].missed

C27_CachedEqualsUncached ==
    (/\ served.call = "calculate_recipe"
     /\ served.returned.outcome = "returned"
     /\ served.returned.result.cached)
        => served.returned.result.ingredients
               = Calculate(served.request).ingredients


\* C30: a call that finds the breaker CLOSED leaves it OPEN exactly when it is
\* the failure_threshold-th failed call in a row, a successful call having
\* reset the count; a call that finds it OPEN before recovery_timeout has
\* elapsed since the last failure ends with CircuitBreakerOpenError and func
\* is not invoked.
C30_OpensOnConsecutiveFailures ==
    /\ (breaker.call # "none" /\ breaker.before = "CLOSED") =>
          (breaker.state = "OPEN"
              <=> breaker.consecutive = failure_threshold)
    /\ (/\ breaker.call # "none"
        /\ breaker.before = "OPEN"
        /\ breaker.elapsed < recovery_timeout) =>
          /\ breaker.call = "CircuitBreakerOpenError"
          /\ ~breaker.invoked

====
